---- MODULE Spec2Model ----
(***************************************************************************)
(* State machine of src/App.tsx: the News Research Tool component.         *)
(*                                                                         *)
(* The React state of App (urls, query, isProcessing, isSearching,         *)
(* processedData, answer, sources, error) is the state of the model.  The  *)
(* two async handlers, processUrls and searchArticles, are split at their  *)
(* awaits: the part up to the first await is one step (the click), and     *)
(* each continuation after a setTimeout promise resolves is one step.      *)
(* JavaScript runs each of these parts to completion, and React renders    *)
(* the batched updates before the next event is dispatched, so a step is   *)
(* atomic and the `disabled` attributes are always computed from the       *)
(* current state.                                                          *)
(*                                                                         *)
(* Nothing inside either try block can throw (a setTimeout promise never   *)
(* rejects; split, filter and map of a string cannot fail), so the catch   *)
(* blocks never run and each finally block is the tail of the step that    *)
(* ends the call.                                                          *)
(*                                                                         *)
(* Text is a sequence of one-character strings, so that trim() and         *)
(* split() are computed character by character.  The answer is a string    *)
(* grown with \o, as the code grows it with +.  A call in flight is an     *)
(* entry of procs (the urls its closure holds) or of searches (the index   *)
(* of the fragment its next timer appends); timers of one delay fire in    *)
(* the order they were set, so each of the two is a queue.                 *)
(*                                                                         *)
(* Typed urls are made of a letter, a space and a newline.  No typed text  *)
(* holds '/', so title() returns the url itself here; no property below    *)
(* reads a title.                                                          *)
(***************************************************************************)
EXTENDS Integers, Sequences, FiniteSets, TLC

VARIABLES urls, query, isProcessing, isSearching, processedData, answer,
          sources, error, procs, searches, answerSources

vars == <<urls, query, isProcessing, isSearching, processedData, answer,
          sources, error, procs, searches, answerSources>>

(***************************************************************************)
(* Bounds of the model: the longest urls text typed under Spec and HSpec,  *)
(* under FairSpec and under DSpec, the longest question typed, and the     *)
(* most calls in flight at once under DSpec.                               *)
(***************************************************************************)
MaxUrlsLen == 3
FairUrlsLen == 2
ShortUrlsLen == 1
MaxQueryLen == 1
MaxCalls == 1

(***************************************************************************)
(* Text.                                                                   *)
(***************************************************************************)
NL == "\n"
UrlChars == {"a", " ", NL}
QueryChars == {"q", " "}
WhiteSpace == {" ", NL}

\* The values one keystroke can turn text into: a character of chars typed
\* at any place while the text is shorter than n, or one character deleted
Edits(text, chars, n) ==
  {SubSeq(text, 1, i) \o <<c>> \o SubSeq(text, i + 1, Len(text)) :
     i \in (IF Len(text) < n THEN 0..Len(text) ELSE {}), c \in chars}
  \cup {SubSeq(text, 1, i - 1) \o SubSeq(text, i + 1, Len(text)) :
          i \in 1..Len(text)}

null == "null"
Article == <<"A", "r", "t", "i", "c", "l", "e">>

RECURSIVE trimStart(_)
trimStart(s) ==
  IF s = <<>> \/ Head(s) \notin WhiteSpace THEN s ELSE trimStart(Tail(s))

RECURSIVE trimEnd(_)
trimEnd(s) ==
  IF s = <<>> \/ s[Len(s)] \notin WhiteSpace THEN s
  ELSE trimEnd(SubSeq(s, 1, Len(s) - 1))

\* String.prototype.trim
trim(s) == trimEnd(trimStart(s))

RECURSIVE split(_, _)
\* String.prototype.split with a one-character separator
split(s, sep) ==
  IF \E i \in 1..Len(s) : s[i] = sep
  THEN LET i == CHOOSE j \in 1..Len(s) :
                  s[j] = sep /\ \A k \in 1..(j - 1) : s[k] # sep
       IN  <<SubSeq(s, 1, i - 1)>> \o split(SubSeq(s, i + 1, Len(s)), sep)
  ELSE <<s>>

\* Array.prototype.pop on a non-empty array: its last element
pop(arr) == arr[Len(arr)]

\* urls.split('\n').filter(url => url.trim())
urlList(text) == SelectSeq(split(text, NL), LAMBDA url : trim(url) # <<>>)

\* url.split('/').pop() || 'Article'
title(url) ==
  LET last == pop(split(url, "/")) IN IF last = <<>> THEN Article ELSE last

\* urlList.map(url => ({url, title}))
mockSources(text) ==
  LET list == urlList(text)
  IN  [i \in 1..Len(list) |-> [url |-> list[i], title |-> title(list[i])]]

mockAnswers ==
  << "Based on the articles you've provided, ",
     "I can see that the topic you're asking about ",
     "is discussed in several sources. ",
     "The main points from the articles suggest that ",
     "this is an important development in the field. ",
     "According to the sources, there are multiple perspectives on this issue. ",
     "Some experts believe it will have significant impact, ",
     "while others are more cautious about the implications. ",
     "The data from these articles indicates a growing trend ",
     "that merits further investigation and analysis." >>

(***************************************************************************)
(* Initial state: the useState defaults; no call is in flight.             *)
(***************************************************************************)
Init ==
  /\ urls = <<>>
  /\ query = <<>>
  /\ isProcessing = FALSE
  /\ isSearching = FALSE
  /\ processedData = FALSE
  /\ answer = ""
  /\ sources = <<>>
  /\ error = null
  /\ procs = <<>>
  /\ searches = <<>>
  /\ answerSources = <<>>

(***************************************************************************)
(* Handlers.                                                               *)
(***************************************************************************)
\* onChange of the textarea
setUrls(value) ==
  /\ value # urls
  /\ urls' = value
  /\ UNCHANGED <<query, isProcessing, isSearching, processedData, answer,
                 sources, error, procs, searches>>

\* onChange of the question input
setQuery(value) ==
  /\ value # query
  /\ query' = value
  /\ UNCHANGED <<urls, isProcessing, isSearching, processedData, answer,
                 sources, error, procs, searches>>

\* Variant of processUrls: the guard tests urls, not urls.trim()
processUrlsNoTrim ==
  IF urls = <<>>
  THEN /\ error' = "Please enter at least one URL"
       /\ UNCHANGED <<urls, query, isProcessing, isSearching, processedData,
                      answer, sources, procs, searches>>
  ELSE /\ isProcessing' = TRUE
       /\ error' = null
       /\ procs' = Append(procs, urls)
       /\ UNCHANGED <<urls, query, isSearching, processedData, answer,
                      sources, searches>>

\* Variant of processUrls: a new batch first clears the readiness flag
processUrlsReset ==
  IF trim(urls) = <<>>
  THEN /\ error' = "Please enter at least one URL"
       /\ UNCHANGED <<urls, query, isProcessing, isSearching, processedData,
                      answer, sources, procs, searches>>
  ELSE /\ isProcessing' = TRUE
       /\ processedData' = FALSE
       /\ error' = null
       /\ procs' = Append(procs, urls)
       /\ UNCHANGED <<urls, query, isSearching, answer, sources, searches>>

\* processUrls up to its await: the call keeps the urls of its render
processUrls ==
  IF trim(urls) = <<>>
  THEN /\ error' = "Please enter at least one URL"
       /\ UNCHANGED <<urls, query, isProcessing, isSearching, processedData,
                      answer, sources, procs, searches>>
  ELSE /\ isProcessing' = TRUE
       /\ error' = null
       /\ procs' = Append(procs, urls)
       /\ UNCHANGED <<urls, query, isSearching, processedData, answer,
                      sources, searches>>

\* Variant of processUrlsResume: the new sources are added to the old ones
processUrlsResumeMerge ==
  /\ procs # <<>>
  /\ sources' = sources \o mockSources(Head(procs))
  /\ processedData' = TRUE
  /\ error' = null
  /\ isProcessing' = FALSE
  /\ procs' = Tail(procs)
  /\ UNCHANGED <<urls, query, isSearching, answer, searches>>

\* processUrls after its 2000 ms timer: timers of one delay fire in the
\* order they were set
processUrlsResume ==
  /\ procs # <<>>
  /\ sources' = mockSources(Head(procs))
  /\ processedData' = TRUE
  /\ error' = null
  /\ isProcessing' = FALSE
  /\ procs' = Tail(procs)
  /\ UNCHANGED <<urls, query, isSearching, answer, searches>>

\* Variant of searchArticles: no test of processedData
searchArticlesUnguarded ==
  IF trim(query) = <<>>
  THEN /\ error' = "Please enter a question"
       /\ UNCHANGED <<urls, query, isProcessing, isSearching, processedData,
                      answer, sources, procs, searches>>
  ELSE /\ isSearching' = TRUE
       /\ error' = null
       /\ answer' = ""
       /\ searches' = Append(searches, 1)
       /\ UNCHANGED <<urls, query, isProcessing, processedData, sources,
                      procs>>

\* Variant of searchArticles: a search also clears the sources
searchArticlesClearsSources ==
  IF trim(query) = <<>>
  THEN /\ error' = "Please enter a question"
       /\ UNCHANGED <<urls, query, isProcessing, isSearching, processedData,
                      answer, sources, procs, searches>>
  ELSE IF ~processedData
  THEN /\ error' = "Please process URLs first"
       /\ UNCHANGED <<urls, query, isProcessing, isSearching, processedData,
                      answer, sources, procs, searches>>
  ELSE /\ isSearching' = TRUE
       /\ error' = null
       /\ answer' = ""
       /\ sources' = <<>>
       /\ searches' = Append(searches, 1)
       /\ UNCHANGED <<urls, query, isProcessing, processedData, procs>>

\* searchArticles up to its first await; a call in flight is the index of
\* the fragment its next timer appends
searchArticles ==
  IF trim(query) = <<>>
  THEN /\ error' = "Please enter a question"
       /\ UNCHANGED <<urls, query, isProcessing, isSearching, processedData,
                      answer, sources, procs, searches>>
  ELSE IF ~processedData
  THEN /\ error' = "Please process URLs first"
       /\ UNCHANGED <<urls, query, isProcessing, isSearching, processedData,
                      answer, sources, procs, searches>>
  ELSE /\ isSearching' = TRUE
       /\ error' = null
       /\ answer' = ""
       /\ searches' = Append(searches, 1)
       /\ UNCHANGED <<urls, query, isProcessing, processedData, sources,
                      procs>>

\* Variant of searchArticlesResume: setAnswer(part), not prev => prev + part
searchArticlesResumeReplace ==
  /\ searches # <<>>
  /\ LET part == Head(searches)
     IN  /\ answer' = mockAnswers[part]
         /\ IF part < Len(mockAnswers)
            THEN /\ searches' = Append(Tail(searches), part + 1)
                 /\ UNCHANGED isSearching
            ELSE /\ searches' = Tail(searches)
                 /\ isSearching' = FALSE
  /\ UNCHANGED <<urls, query, isProcessing, processedData, sources, error,
                 procs>>

\* Variant of searchArticlesResume: no finally block
searchArticlesResumeNoFinally ==
  /\ searches # <<>>
  /\ LET part == Head(searches)
     IN  /\ answer' = answer \o mockAnswers[part]
         /\ IF part < Len(mockAnswers)
            THEN searches' = Append(Tail(searches), part + 1)
            ELSE searches' = Tail(searches)
  /\ UNCHANGED <<urls, query, isProcessing, isSearching, processedData,
                 sources, error, procs>>

\* searchArticles after one 300 ms timer: append the fragment, then either
\* set the next timer or leave the loop and run the finally block
searchArticlesResume ==
  /\ searches # <<>>
  /\ LET part == Head(searches)
     IN  /\ answer' = answer \o mockAnswers[part]
         /\ IF part < Len(mockAnswers)
            THEN /\ searches' = Append(Tail(searches), part + 1)
                 /\ UNCHANGED isSearching
            ELSE /\ searches' = Tail(searches)
                 /\ isSearching' = FALSE
  /\ UNCHANGED <<urls, query, isProcessing, processedData, sources, error,
                 procs>>

(***************************************************************************)
(* The rendered controls: a disabled control dispatches no event.  The     *)
(* user edits a text one keystroke at a time, up to n characters.          *)
(***************************************************************************)
UrlsDisabled == isProcessing
ProcessDisabled == isProcessing
QueryDisabled == isSearching \/ ~processedData
SearchDisabled == isSearching \/ ~processedData

ChangeUrls(n) ==
  ~UrlsDisabled /\ \E value \in Edits(urls, UrlChars, n) : setUrls(value)
ClickProcess == ~ProcessDisabled /\ processUrls
ChangeQuery ==
  /\ ~QueryDisabled
  /\ \E value \in Edits(query, QueryChars, MaxQueryLen) : setQuery(value)
ClickSearch == ~SearchDisabled /\ searchArticles

\* The component as the user drives it
Next ==
  \/ ChangeUrls(MaxUrlsLen) /\ UNCHANGED answerSources
  \/ ClickProcess /\ UNCHANGED answerSources
  \/ processUrlsResume /\ UNCHANGED answerSources
  \/ ChangeQuery /\ UNCHANGED answerSources
  \/ ClickSearch /\ UNCHANGED answerSources
  \/ searchArticlesResume /\ UNCHANGED answerSources

Spec == Init /\ [][Next]_vars

\* The same with texts of up to FairUrlsLen characters, and with the
\* timers sure to fire: the event loop runs every timer that is due
FNext ==
  \/ ChangeUrls(FairUrlsLen) /\ UNCHANGED answerSources
  \/ ClickProcess /\ UNCHANGED answerSources
  \/ processUrlsResume /\ UNCHANGED answerSources
  \/ ChangeQuery /\ UNCHANGED answerSources
  \/ ClickSearch /\ UNCHANGED answerSources
  \/ searchArticlesResume /\ UNCHANGED answerSources

FairSpec ==
  /\ Init /\ [][FNext]_vars
  /\ WF_vars(processUrlsResume /\ UNCHANGED answerSources)
  /\ WF_vars(searchArticlesResume /\ UNCHANGED answerSources)

\* The sources in place when the search that set the displayed answer
\* started: a history variable, written by no handler
Record(A) ==
  A /\ answerSources' =
         IF Len(searches') > Len(searches) THEN sources ELSE answerSources

HNext ==
  \/ Record(ChangeUrls(MaxUrlsLen))
  \/ Record(ClickProcess)
  \/ Record(processUrlsResume)
  \/ Record(ChangeQuery)
  \/ Record(ClickSearch)
  \/ Record(searchArticlesResume)

HSpec == Init /\ [][HNext]_vars

\* The handlers called whatever the controls show, at most MaxCalls calls
\* in flight
InFlight == Len(procs) + Len(searches)

DNext ==
  \/ /\ \E value \in Edits(urls, UrlChars, ShortUrlsLen) : setUrls(value)
     /\ UNCHANGED answerSources
  \/ InFlight < MaxCalls /\ processUrls /\ UNCHANGED answerSources
  \/ processUrlsResume /\ UNCHANGED answerSources
  \/ /\ \E value \in Edits(query, QueryChars, MaxQueryLen) : setQuery(value)
     /\ UNCHANGED answerSources
  \/ InFlight < MaxCalls /\ searchArticles /\ UNCHANGED answerSources
  \/ searchArticlesResume /\ UNCHANGED answerSources

DSpec == Init /\ [][DNext]_vars

(***************************************************************************)
(* Properties.                                                             *)
(***************************************************************************)
RECURSIVE Delivered(_)
\* The first k fragments, concatenated
Delivered(k) == IF k = 0 THEN "" ELSE Delivered(k - 1) \o mockAnswers[k]

CompleteAnswer == Delivered(Len(mockAnswers))

\* Text that is empty or made of white space only
AllWhite(text) == \A i \in 1..Len(text) : text[i] \in WhiteSpace

\* The lines of text that hold a character other than white space, in their
\* order: a line runs from a start (the first place, or the place after a
\* newline) up to the next newline or the end
LineStarts(text) ==
  {i \in 1..(Len(text) + 1) : i = 1 \/ text[i - 1] = NL}
LineFrom(text, i) ==
  LET stop == CHOOSE j \in i..(Len(text) + 1) :
                /\ j = Len(text) + 1 \/ text[j] = NL
                /\ \A k \in i..(j - 1) : text[k] # NL
  IN  SubSeq(text, i, stop - 1)
NonBlankLines(text) ==
  LET starts == {i \in LineStarts(text) : ~AllWhite(LineFrom(text, i))}
      nth(n) == CHOOSE i \in starts :
                  Cardinality({j \in starts : j < i}) = n - 1
  IN  [n \in 1..Cardinality(starts) |-> LineFrom(text, nth(n))]

SourceUrls == [i \in 1..Len(sources) |-> sources[i].url]

\* C1: with the Search button's guard, the answer is always the first k
\* fragments in array order for some k, it only ever changes by a reset to
\* '' as a search starts or by gaining the next fragment, and as a search
\* finishes it is all 10 fragments
C1_StreamedInOrder ==
  /\ [](\E k \in 0..Len(mockAnswers) : answer = Delivered(k))
  /\ [][/\ (~isSearching /\ isSearching') => answer' = ""
        /\ (isSearching /\ ~isSearching') => answer' = CompleteAnswer
        /\ answer' # answer =>
             \/ answer' = "" /\ ~isSearching /\ isSearching'
             \/ \E k \in 1..Len(mockAnswers) :
                  answer = Delivered(k - 1) /\ answer' = Delivered(k)]_vars

C1_Witness == ~isSearching /\ answer = CompleteAnswer

\* C2: searchArticles called with a non-blank query before any batch was
\* processed sets the error 'Please process URLs first' and leaves
\* isSearching and answer alone; a search in progress and a displayed
\* answer both imply a processed batch
C2_QuestionNeedsBatch ==
  /\ [][(searchArticles /\ ~AllWhite(query) /\ ~processedData) =>
          /\ error' = "Please process URLs first"
          /\ UNCHANGED <<isSearching, answer>>]_vars
  /\ [](isSearching => processedData)
  /\ [](answer # "" => processedData)

C2_Witness ==
  error = "Please process URLs first" /\ ~AllWhite(query) /\ ~processedData

\* C3: processUrls called with urls empty or white space only sets the
\* error 'Please enter at least one URL' and leaves isProcessing,
\* processedData, sources and answer alone
C3_EmptyUrlsRejected ==
  [][(processUrls /\ AllWhite(urls)) =>
       /\ error' = "Please enter at least one URL"
       /\ UNCHANGED <<isProcessing, processedData, sources, answer>>]_vars

C3_Witness ==
  /\ error = "Please enter at least one URL"
  /\ urls # <<>>
  /\ ~processedData /\ sources = <<>>

\* C4: no search is in progress while URLs are being processed
C4_NoSearchWhileProcessing == ~(isProcessing /\ isSearching)

\* C5: no two entries of sources have the same url
C5_SourcesDeduplicated ==
  \A i, j \in 1..Len(sources) : sources[i].url = sources[j].url => i = j

\* C6: as a processUrls call completes, the urls of sources are exactly the
\* non-blank lines of the text the call was made with, in order
C6_BatchReplaces ==
  [][processUrlsResume => SourceUrls' = NonBlankLines(Head(procs))]_vars

C6_Witness ==
  processedData /\ ~isProcessing /\ Len(sources) = 2

\* C7: while an answer is displayed, sources is what it was when the search
\* that produced the answer started
C7_AnswerKeepsItsSources == answer # "" => sources = answerSources

\* C8: with the timers firing, isProcessing and isSearching each lead back
\* to false; either flag set means a timer is pending; a search releases
\* isSearching on its 10th fragment step, the steps being numbered from 1
C8_BusyFlagsReleased ==
  /\ isProcessing ~> ~isProcessing
  /\ isSearching ~> ~isSearching
  /\ [](isProcessing => procs # <<>>)
  /\ [](isSearching => searches # <<>>)
  /\ [][/\ (~isSearching /\ isSearching') => searches' = <<1>>
        /\ (isSearching /\ isSearching' /\ answer' # answer) =>
             searches' = <<Head(searches) + 1>>
        /\ (isSearching /\ ~isSearching') =>
             searches = <<Len(mockAnswers)>>]_vars

C8_Witness ==
  ~isProcessing /\ ~isSearching /\ processedData /\ answer = CompleteAnswer

\* C9: a processed batch has at least one source, and processedData never
\* goes back to false
C9_ReadinessMonotone ==
  /\ [](processedData => Len(sources) >= 1)
  /\ [][processedData => processedData']_vars

C9_Witness ==
  processedData /\ error = "Please enter at least one URL"

\* C10: no step of searchArticles changes sources, processedData,
\* isProcessing or urls, and no step of processUrls changes answer,
\* isSearching or query
C10_DisjointResults ==
  [][/\ (searchArticles \/ searchArticlesResume) =>
          UNCHANGED <<sources, processedData, isProcessing, urls>>
     /\ (processUrls \/ processUrlsResume) =>
          UNCHANGED <<answer, isSearching, query>>]_vars

C10_Witness ==
  error = "Please enter a question" /\ processedData /\ isProcessing
====
